---- MODULE Spec2Model ----
(***************************************************************************)
(* Job orchestration and polling engine of RoadEye's frontend              *)
(* (src/frontend/src/App.jsx): the file registry, the asset selection, the *)
(* job record store, the per-file pipeline (create -> upload -> enqueue),  *)
(* the polling loop and the start / stop / resume controls.                *)
(*                                                                         *)
(* JavaScript runs one task at a time: an action below is one handler or   *)
(* one continuation of an async function, from the event that resumes it   *)
(* (a click, a response, a timer) to the next await that waits for I/O.    *)
(* The one-character ellipsis of the status labels is written "...".       *)
(***************************************************************************)
EXTENDS Integers, Sequences, FiniteSets, Bags, TLC

\* ------------------------------------------------------------------ bounds
MaxJobs == 1          \* jobs the remote service accepts; it rejects later requests
MaxLoops == 2         \* polling loops alive at the same time
MaxTicks == 1         \* clock advances one polling loop lives through
MaxPick == 1          \* files handed to one onPickVideos call
MaxResults == 1       \* length of a results array in a status response
MaxPickRegistry == 2  \* files handed to one onPickVideos call, registry alone
MaxLongWaits == 2     \* long waits a polling loop lives through beyond those
                      \* the other loops and the clock advances account for

\* ------------------------------------------------------- program constants
ASSET_OPTIONS ==
  <<"roadside_signs", "overhead_signs", "mileposts", "guardrails", "light_poles">>

maxSeconds == 12 * 60 * 60

RetryWait == 2000

QueuedWait == 2000

OtherWait == 3000

null == "<null>"

\* ------------------------------------------------------------- environment
\* Files the user can pick: a video and a file that is not a video.
VideoA == [name |-> "a.mp4", size |-> 1, lastModified |-> 7, type |-> "video/mp4"]

VideoB == [name |-> "b.mp4", size |-> 2, lastModified |-> 7, type |-> "video/mp4"]

TextC == [name |-> "c.txt", size |-> 3, lastModified |-> 7, type |-> ""]

Files == {VideoA, TextC}

FileLists == UNION { [1..n -> Files] : n \in 1..MaxPick }

\* Files for the registry alone: three identity keys, each as two videos of
\* different content and as a file that is not a video.
RegistryFiles ==
  [name : {"a.mp4", "b.mp4", "c.mp4"}, size : {1}, lastModified : {7},
   type : {"video/mp4", "video/webm", "text/plain"}]

RegistryLists == UNION { [1..n -> RegistryFiles] : n \in 1..MaxPickRegistry }

\* Raw status strings of the remote service: the documented ones and one
\* unrecognised value, which the code passes through as the display status.
RawStatuses == {"queued", "processing", "done", "error", "abandoned"}

\* Clock advances, in milliseconds.
Delays == {OtherWait, maxSeconds * 1000 + 1000}

JobIdOf(n) == "j" \o ToString(n)

\* ------------------------------------------------------------ pure helpers
fileKey(f) == f.name \o "_" \o ToString(f.size) \o "_" \o ToString(f.lastModified)

Range(s) == { s[i] : i \in DOMAIN s }

LowerChar(c) ==
  CASE c = "A" -> "a" [] c = "B" -> "b" [] c = "C" -> "c" [] c = "D" -> "d"
    [] c = "E" -> "e" [] c = "F" -> "f" [] c = "G" -> "g" [] c = "H" -> "h"
    [] c = "I" -> "i" [] c = "J" -> "j" [] c = "K" -> "k" [] c = "L" -> "l"
    [] c = "M" -> "m" [] c = "N" -> "n" [] c = "O" -> "o" [] c = "P" -> "p"
    [] c = "Q" -> "q" [] c = "R" -> "r" [] c = "S" -> "s" [] c = "T" -> "t"
    [] c = "U" -> "u" [] c = "V" -> "v" [] c = "W" -> "w" [] c = "X" -> "x"
    [] c = "Y" -> "y" [] c = "Z" -> "z" [] OTHER -> c

RECURSIVE toLowerCase(_)
toLowerCase(s) ==
  IF Len(s) = 0 THEN ""
  ELSE LowerChar(SubSeq(s, 1, 1)) \o toLowerCase(SubSeq(s, 2, Len(s)))

includes(s, t) ==
  \E i \in 1..(Len(s) - Len(t) + 1) : SubSeq(s, i, i + Len(t) - 1) = t

startsWith(s, t) == Len(s) >= Len(t) /\ SubSeq(s, 1, Len(t)) = t

\* resumePolling's test on a record's status label.
isTerminal(status) ==
  LET st == toLowerCase(status)
  IN includes(st, "done") \/ includes(st, "error") \/ includes(st, "timed out")

\* The three terminal display states of the lifecycle.
Terminal == {"Done", "Error", "Timed out"}

InitialRecord == [status |-> "Queued", jobId |-> null, message |-> ""]

\* setJob(k, patch) applied to the store js.
setJob(js, k, patch) ==
  LET base == IF k \in DOMAIN js THEN js[k] ELSE InitialRecord
      rec == [f \in {"status", "jobId", "message"} |->
                IF f \in DOMAIN patch THEN patch[f] ELSE base[f]]
  IN [x \in DOMAIN js \cup {k} |-> IF x = k THEN rec ELSE js[x]]

\* ------------------------------------------------------------------- state
VARIABLES
  videos,          \* useState([]): the registered files, in order
  assets,          \* useState({...}): category -> requested
  jobs,            \* useState({}): fileKey -> {status, jobId, message}
  isStarting,      \* useState(false)
  pollingEnabled,  \* useState(true)
  pollCancel,      \* pollCancelRef.current
  pipes,           \* the pipelines of the last startMode1Parallel, by fileKey
  loops,           \* bag of running pollUntilTerminal calls
  nextJob,         \* remote service: number of the next job it creates
  last             \* the request the last step settled (stage, file key, outcome)
                   \* and the requests it sent

vars == <<videos, assets, jobs, isStarting, pollingEnabled, pollCancel,
          pipes, loops, nextJob, last>>

Keys(vs) == { fileKey(vs[i]) : i \in DOMAIN vs }

selectedAssets == { k \in DOMAIN assets : assets[k] }

Event(op, k, outcome, reqs) ==
  [op |-> op, k |-> k, outcome |-> outcome, reqs |-> reqs]

\* A status response: its raw status and its body.
PollEvent(l, status, job) ==
  [op |-> "poll", k |-> l.k, outcome |-> status, reqs |-> {}, body |-> job,
   elapsedSec |-> l.elapsedSec]

\* A step of a polling loop other than a status response; failedOnly tells
\* that no query of that loop had succeeded.
LoopEvent(op, l, outcome, reqs) ==
  [op |-> op, k |-> l.k, outcome |-> outcome, reqs |-> reqs, failedOnly |-> l.failedOnly]

\* A step that settles no request and sends none.
NoEvent == Event("", "", "", {})

\* A call of onPickVideos that went past its early return, and its argument.
PickEvent(fileList) ==
  [op |-> "register", k |-> "", outcome |-> "", reqs |-> {}, files |-> fileList]

\* A request on the wire: kind, the file it is for, the remote job it names
\* and the task that sent it ("pipeline" or "resume").
Req(kind, k, jobId, by) == [kind |-> kind, k |-> k, jobId |-> jobId, by |-> by]

\* A pipeline as startMode1Parallel launches it: awaiting POST /jobs, with
\* the pollingEnabled its closure holds. "how" tells how it returned.
NewPipe(poll) == [pc |-> "create", jobId |-> null, poll |-> poll, how |-> ""]

Init ==
  /\ videos = <<>>
  /\ assets = [a \in Range(ASSET_OPTIONS) |-> TRUE]
  /\ jobs = [k \in {} |-> InitialRecord]
  /\ isStarting = FALSE
  /\ pollingEnabled = TRUE
  /\ pollCancel = FALSE
  /\ pipes = [k \in {} |-> NewPipe(TRUE)]
  /\ loops = EmptyBag
  /\ nextJob = 1
  /\ last = NoEvent

\* ------------------------------------------------------------ file registry
\* Variant: a re-seen key moves to the end of the list.
RECURSIVE MergeFilesMovesToEnd(_, _)
MergeFilesMovesToEnd(prev, arr) ==
  IF arr = <<>> THEN prev
  ELSE LET f == Head(arr)
           others == SelectSeq(prev, LAMBDA g : fileKey(g) # fileKey(f))
       IN MergeFilesMovesToEnd(Append(others, f), Tail(arr))

\* The Map merge of onPickVideos: a seen key keeps its place and takes the
\* new file, a new key goes to the end.
RECURSIVE MergeFiles(_, _)
MergeFiles(prev, arr) ==
  IF arr = <<>> THEN prev
  ELSE LET f == Head(arr)
           merged == IF fileKey(f) \in Keys(prev)
                     THEN [i \in DOMAIN prev |->
                             IF fileKey(prev[i]) = fileKey(f) THEN f ELSE prev[i]]
                     ELSE Append(prev, f)
       IN MergeFiles(merged, Tail(arr))

\* Variant: every picked file gets a new record.
onPickVideosResets(fileList) ==
  LET arr == SelectSeq(fileList, LAMBDA f : startsWith(f.type, "video/"))
  IN /\ arr # <<>>
     /\ videos' = MergeFiles(videos, arr)
     /\ jobs' = [k \in DOMAIN jobs \cup Keys(arr) |->
                   IF k \in Keys(arr) THEN InitialRecord ELSE jobs[k]]
     /\ last' = PickEvent(fileList)
     /\ UNCHANGED <<assets, isStarting, pollingEnabled, pollCancel, pipes, loops,
                    nextJob>>

onPickVideos(fileList) ==
  LET arr == SelectSeq(fileList, LAMBDA f : startsWith(f.type, "video/"))
  IN /\ arr # <<>>
     /\ videos' = MergeFiles(videos, arr)
     /\ jobs' = [k \in DOMAIN jobs \cup Keys(arr) |->
                   IF k \in DOMAIN jobs THEN jobs[k] ELSE InitialRecord]
     /\ last' = PickEvent(fileList)
     /\ UNCHANGED <<assets, isStarting, pollingEnabled, pollCancel, pipes, loops,
                    nextJob>>

Register == \E fileList \in FileLists : onPickVideos(fileList)

RegisterAny == \E fileList \in RegistryLists : onPickVideos(fileList)

\* idx is a JavaScript index: videos[idx] is the (idx+1)-th file.
removeVideo(idx) ==
  LET inRange == idx + 1 \in DOMAIN videos
  IN /\ jobs' = IF inRange
                THEN [k \in DOMAIN jobs \ {fileKey(videos[idx + 1])} |-> jobs[k]]
                ELSE jobs
     /\ videos' = IF inRange
                  THEN SubSeq(videos, 1, idx) \o SubSeq(videos, idx + 2, Len(videos))
                  ELSE videos
     /\ last' = NoEvent
     /\ UNCHANGED <<assets, isStarting, pollingEnabled, pollCancel, pipes, loops,
                    nextJob>>

Remove == \E idx \in 0..1 : removeVideo(idx)

\* ---------------------------------------------------------- asset selection
toggleAsset(key) ==
  /\ assets' = [a \in DOMAIN assets \cup {key} |->
                  IF a = key THEN (IF key \in DOMAIN assets THEN ~assets[key] ELSE TRUE)
                  ELSE assets[a]]
  /\ last' = NoEvent
  /\ UNCHANGED <<videos, jobs, isStarting, pollingEnabled, pollCancel, pipes, loops,
                 nextJob>>

\* The checkboxes call toggleAsset with the keys of ASSET_OPTIONS.
Toggle == \E key \in Range(ASSET_OPTIONS) : toggleAsset(key)

\* toggleAsset as a function of any key: categories outside ASSET_OPTIONS.
OtherCategories == {"bridges", "potholes"}

ToggleOther == \E key \in OtherCategories : toggleAsset(key)

\* The "polling enabled" checkbox, disabled while isStarting.
SetPollingEnabled ==
  /\ ~isStarting
  /\ \E checked \in BOOLEAN :
       /\ checked # pollingEnabled
       /\ pollingEnabled' = checked
  /\ last' = NoEvent
  /\ UNCHANGED <<videos, assets, jobs, isStarting, pollCancel, pipes, loops,
                 nextJob>>

\* ------------------------------------------------------------ polling engine
\* Response bodies of GET /jobs/{id} that parse.
JobBodies ==
  { [status |-> s] : s \in RawStatuses \ {"done", "error"} }
    \cup { [status |-> "done"] }
    \cup { [status |-> "done", results |-> [i \in 1..n |-> "r"]] : n \in 0..MaxResults }
    \cup { [status |-> "done", results |-> [i \in 1..MaxResults |-> "r"],
            results_path |-> "out.json"] }
    \cup { [status |-> "error"], [status |-> "error", error |-> "worker crashed"] }
    \cup { [results_path |-> "out.json"] }

NewLoop(k, jobId, owner) ==
  [k |-> k, jobId |-> jobId, owner |-> owner, pc |-> "top",
   elapsedMs |-> 0, elapsedSec |-> 0, wakeAt |-> 0, nticks |-> 0, failedOnly |-> TRUE]

TimedOutPatch(jobId) ==
  [status |-> "Timed out",
   message |-> "Polling timed out after " \o ToString(maxSeconds \div 3600)
                 \o "h (job may still be running)",
   jobId |-> jobId]

\* Variant: the loop has no deadline.
PollIterationNoDeadline(cancel, js, l) ==
  LET elapsedSec == l.elapsedMs \div 1000
  IN IF cancel
     THEN [kind |-> "cancel", jobs |-> js, loop |-> l]
     ELSE [kind |-> "fetch", jobs |-> js,
           loop |-> [l EXCEPT !.pc = "fetch", !.elapsedSec = elapsedSec,
                              !.wakeAt = 0]]

\* Variant: the deadline is tested before the cancellation flag.
PollIterationDeadlineFirst(cancel, js, l) ==
  LET elapsedSec == l.elapsedMs \div 1000
  IN IF elapsedSec > maxSeconds
     THEN [kind |-> "timeout", jobs |-> setJob(js, l.k, TimedOutPatch(l.jobId)),
           loop |-> l]
     ELSE IF cancel
          THEN [kind |-> "cancel", jobs |-> js, loop |-> l]
          ELSE [kind |-> "fetch", jobs |-> js,
                loop |-> [l EXCEPT !.pc = "fetch", !.elapsedSec = elapsedSec,
                                   !.wakeAt = 0]]

\* The head of one iteration of pollUntilTerminal, up to the await of
\* fetchJob: what the loop does, the store after it and the loop after it.
PollIteration(cancel, js, l) ==
  LET elapsedSec == l.elapsedMs \div 1000
  IN IF cancel
     THEN [kind |-> "cancel", jobs |-> js, loop |-> l]
     ELSE IF elapsedSec > maxSeconds
          THEN [kind |-> "timeout", jobs |-> setJob(js, l.k, TimedOutPatch(l.jobId)),
                loop |-> l]
          ELSE [kind |-> "fetch", jobs |-> js,
                loop |-> [l EXCEPT !.pc = "fetch", !.elapsedSec = elapsedSec,
                                   !.wakeAt = 0]]

\* The patch of an iteration whose fetchJob returned body job.
StatusOf(job) == IF "status" \in DOMAIN job THEN job.status ELSE "unknown"

\* Variant: the result count is not read from the response.
DonePatchNoCount(job, jobId) ==
  [status |-> "Done",
   message |-> "Status: done | Results: 0"
                 \o (IF "results_path" \in DOMAIN job
                     THEN " | " \o job.results_path ELSE ""),
   jobId |-> jobId]

DonePatch(job, jobId) ==
  LET resultsCount == IF "results" \in DOMAIN job THEN Len(job.results) ELSE 0
  IN [status |-> "Done",
      message |-> "Status: done | Results: " \o ToString(resultsCount)
                    \o (IF "results_path" \in DOMAIN job
                        THEN " | " \o job.results_path ELSE ""),
      jobId |-> jobId]

ErrorPatch(job, jobId) ==
  [status |-> "Error",
   message |-> IF "error" \in DOMAIN job THEN job.error ELSE "Processing error",
   jobId |-> jobId]

ProgressPatch(status, elapsedSec, jobId) ==
  [status |-> IF status = "queued" THEN "Queued..."
              ELSE IF status = "processing" THEN "Processing..." ELSE status,
   message |-> "Status: " \o status \o " (" \o ToString(elapsedSec) \o "s)",
   jobId |-> jobId]

RetryPatch(elapsedSec, jobId) ==
  [status |-> "Polling...",
   message |-> "Retrying... (" \o ToString(elapsedSec) \o "s)",
   jobId |-> jobId]

PollWait(status) == IF status = "queued" THEN QueuedWait ELSE OtherWait

Sleep(l, ms) == [l EXCEPT !.pc = "sleep", !.wakeAt = l.elapsedMs + ms, !.elapsedSec = 0]

BagOf(x) == SetToBag({x})

\* Variant: one pipeline returning ends the whole batch.
FinishEveryPipe(ps, k, how) == [x \in DOMAIN ps |-> [ps[x] EXCEPT !.pc = "done", !.how = how]]

\* pipes after the pipeline of k returned, and isStarting after it:
\* Promise.allSettled resolves when the last pipeline has returned.
FinishPipe(ps, k, how) == [ps EXCEPT ![k].pc = "done", ![k].how = how]

\* Variant: the batch is over when the first pipeline has returned.
StillStartingUntilFirst(ps) == \A k \in DOMAIN ps : ps[k].pc # "done"

StillStarting(ps) == \E k \in DOMAIN ps : ps[k].pc # "done"

\* A loop returned: a pipeline's loop ends that pipeline.
LoopReturned(l, how) ==
  /\ loops' = loops (-) BagOf(l)
  /\ IF l.owner = "pipeline"
     THEN /\ pipes' = FinishPipe(pipes, l.k, how)
          /\ isStarting' = StillStarting(pipes')
     ELSE UNCHANGED <<pipes, isStarting>>

LoopContinues(l, l2) ==
  /\ loops' = (loops (-) BagOf(l)) (+) BagOf(l2)
  /\ UNCHANGED <<pipes, isStarting>>

\* Variant: a failed query is a terminal failure.
PollFetchFailedGivesUp(l) ==
  /\ l.pc = "fetch"
  /\ jobs' = setJob(jobs, l.k, [status |-> "Error", message |-> "Fetch job failed",
                                jobId |-> l.jobId])
  /\ LoopReturned(l, "error")
  /\ last' = LoopEvent("fetchFailed", l, "retry", {})
  /\ UNCHANGED <<videos, assets, pollingEnabled, pollCancel, nextJob>>

\* fetchJob settled: it threw (network failure, non-2xx or a body that does
\* not parse) or it returned a body.
PollFetchFailed(l) ==
  /\ l.pc = "fetch"
  /\ jobs' = setJob(jobs, l.k, RetryPatch(l.elapsedSec, l.jobId))
  /\ LoopContinues(l, Sleep(l, RetryWait))
  /\ last' = LoopEvent("fetchFailed", l, "retry", {})
  /\ UNCHANGED <<videos, assets, pollingEnabled, pollCancel, nextJob>>

PollFetched(l, job) ==
  LET status == StatusOf(job)
  IN /\ l.pc = "fetch"
     /\ IF status = "done"
        THEN /\ jobs' = setJob(jobs, l.k, DonePatch(job, l.jobId))
             /\ LoopReturned(l, "done")
        ELSE IF status = "error"
        THEN /\ jobs' = setJob(jobs, l.k, ErrorPatch(job, l.jobId))
             /\ LoopReturned(l, "error")
        ELSE /\ jobs' = setJob(jobs, l.k, ProgressPatch(status, l.elapsedSec, l.jobId))
             /\ LoopContinues(l, Sleep([l EXCEPT !.failedOnly = FALSE], PollWait(status)))
     /\ last' = PollEvent(l, status, job)
     /\ UNCHANGED <<videos, assets, pollingEnabled, pollCancel, nextJob>>

\* The timer of sleep fired: the next iteration starts.
PollWake(l) ==
  LET it == PollIteration(pollCancel, jobs, l)
  IN /\ l.pc = "sleep"
     /\ l.elapsedMs >= l.wakeAt
     /\ jobs' = it.jobs
     /\ IF it.kind = "fetch" THEN LoopContinues(l, it.loop) ELSE LoopReturned(l, it.kind)
     /\ last' = LoopEvent("wake", l, it.kind,
                          IF it.kind = "fetch"
                          THEN {Req("status", l.k, l.jobId, l.owner)} ELSE {})
     /\ UNCHANGED <<videos, assets, pollingEnabled, pollCancel, nextJob>>

PollStep ==
  \E l \in BagToSet(loops) :
    \/ PollFetchFailed(l)
    \/ \E job \in JobBodies : PollFetched(l, job)
    \/ PollWake(l)

\* Date.now() moves on by d milliseconds for every running loop.
Advance(l, d) == [l EXCEPT !.elapsedMs = l.elapsedMs + d, !.nticks = l.nticks + 1]

Tick ==
  \E d \in Delays :
    /\ loops # EmptyBag
    /\ \A l \in BagToSet(loops) : l.nticks < MaxTicks
    /\ loops' = [l2 \in { Advance(l, d) : l \in BagToSet(loops) } |->
                   loops[CHOOSE l \in BagToSet(loops) : Advance(l, d) = l2]]
    /\ last' = NoEvent
    /\ UNCHANGED <<videos, assets, jobs, isStarting, pollingEnabled, pollCancel,
                   pipes, nextJob>>

\* A wait that takes a sleeping loop past its deadline. Every loop that
\* waits causes at most one of them before it returns.
PastDeadline == maxSeconds * 1000 + 1000

LongWait ==
  /\ \E l \in BagToSet(loops) : l.pc = "sleep" /\ l.elapsedMs < l.wakeAt
  /\ \A l \in BagToSet(loops) : l.nticks < MaxTicks + MaxJobs + MaxLongWaits
  /\ loops' = [l2 \in { Advance(l, PastDeadline) : l \in BagToSet(loops) } |->
                 loops[CHOOSE l \in BagToSet(loops) : Advance(l, PastDeadline) = l2]]
  /\ last' = NoEvent
  /\ UNCHANGED <<videos, assets, jobs, isStarting, pollingEnabled, pollCancel,
                 pipes, nextJob>>

\* The steps of the polling loops of file k.
PollStepOf(k) ==
  \E l \in BagToSet(loops) :
    /\ l.k = k
    /\ \/ PollFetchFailed(l)
       \/ \E job \in JobBodies : PollFetched(l, job)
       \/ PollWake(l)

\* ------------------------------------------------------------ pipeline runner
\* Error texts readError extracts from a non-2xx response.
ErrorDetails == {"HTTP 500"}

\* Descriptions of the exceptions a fetch or a body parse throws.
Exceptions == {"Failed to fetch"}

\* Response bodies of POST /jobs/{id}/process that parse.
ProcessBodies == { [status |-> s] : s \in RawStatuses } \cup { [detail |-> "ok"] }

\* The call of pollUntilTerminal up to its first await.
StartLoop(cancel, js, k, jobId, owner) == PollIteration(cancel, js, NewLoop(k, jobId, owner))

\* Variant: the catch block resets the job id.
PipelineThrewDropsId(k, e) ==
  /\ jobs' = setJob(jobs, k, [status |-> "Error", message |-> "Unexpected error: " \o e,
                              jobId |-> null])
  /\ pipes' = FinishPipe(pipes, k, pipes[k].pc \o " threw")
  /\ isStarting' = StillStarting(pipes')
  /\ last' = Event(pipes[k].pc, k, "threw", {})
  /\ UNCHANGED <<videos, assets, pollingEnabled, pollCancel, loops, nextJob>>

\* The catch block of runOneVideoPipeline.
PipelineThrew(k, e) ==
  /\ jobs' = setJob(jobs, k, [status |-> "Error", message |-> "Unexpected error: " \o e])
  /\ pipes' = FinishPipe(pipes, k, pipes[k].pc \o " threw")
  /\ isStarting' = StillStarting(pipes')
  /\ last' = Event(pipes[k].pc, k, "threw", {})
  /\ UNCHANGED <<videos, assets, pollingEnabled, pollCancel, loops, nextJob>>

\* Variant: the Error patch of a rejected request carries no jobId.
PipelineRejectedDropsId(k, patch) ==
  /\ jobs' = setJob(jobs, k, [status |-> patch.status, message |-> patch.message])
  /\ pipes' = FinishPipe(pipes, k, pipes[k].pc \o " rejected")
  /\ isStarting' = StillStarting(pipes')
  /\ last' = Event(pipes[k].pc, k, "rejected", {})
  /\ UNCHANGED <<videos, assets, pollingEnabled, pollCancel, loops, nextJob>>

PipelineRejected(k, patch) ==
  /\ jobs' = setJob(jobs, k, patch)
  /\ pipes' = FinishPipe(pipes, k, pipes[k].pc \o " rejected")
  /\ isStarting' = StillStarting(pipes')
  /\ last' = Event(pipes[k].pc, k, "rejected", {})
  /\ UNCHANGED <<videos, assets, pollingEnabled, pollCancel, loops, nextJob>>

\* POST /jobs settled.
CreateStep(k) ==
  /\ pipes[k].pc = "create"
  /\ \/ \E e \in Exceptions : PipelineThrew(k, e)
     \/ \E err \in ErrorDetails :
          PipelineRejected(k, [status |-> "Error",
                               message |-> "Job create failed: " \o err])
     \/ LET jobId == JobIdOf(nextJob)
        IN /\ nextJob <= MaxJobs
           /\ nextJob' = nextJob + 1
           /\ jobs' = setJob(jobs, k, [status |-> "Uploading...", jobId |-> jobId,
                                       message |-> ""])
           /\ pipes' = [pipes EXCEPT ![k].pc = "upload", ![k].jobId = jobId]
           /\ last' = Event("create", k, "ok", {Req("upload", k, jobId, "pipeline")})
           /\ UNCHANGED <<videos, assets, isStarting, pollingEnabled, pollCancel, loops>>

\* POST /jobs/{id}/upload settled.
UploadStep(k) ==
  LET jobId == pipes[k].jobId
  IN /\ pipes[k].pc = "upload"
     /\ \/ \E e \in Exceptions : PipelineThrew(k, e)
        \/ \E err \in ErrorDetails :
             PipelineRejected(k, [status |-> "Error",
                                  message |-> "Upload failed: " \o err,
                                  jobId |-> jobId])
        \/ /\ jobs' = setJob(jobs, k, [status |-> "Enqueueing...", message |-> "",
                                       jobId |-> jobId])
           /\ pipes' = [pipes EXCEPT ![k].pc = "process"]
           /\ last' = Event("upload", k, "ok", {Req("process", k, jobId, "pipeline")})
           /\ UNCHANGED <<videos, assets, isStarting, pollingEnabled, pollCancel, loops,
                          nextJob>>

\* The enqueue request of k succeeded with body procData.
ProcessEvent(k, outcome, reqs, procData) ==
  [op |-> "process", k |-> k, outcome |-> outcome, reqs |-> reqs, body |-> procData]

\* Variant: the pipeline polls whatever the polling checkbox says.
ProcessOkAlwaysPolls(k, procData) ==
  LET jobId == pipes[k].jobId
      procStatus == IF "status" \in DOMAIN procData THEN procData.status ELSE "queued"
      label == IF procStatus = "queued" THEN "Queued..." ELSE procStatus
      enqueued == setJob(jobs, k, [status |-> label,
                                   message |-> "Status: " \o procStatus,
                                   jobId |-> jobId])
      it == StartLoop(pollCancel, enqueued, k, jobId, "pipeline")
  IN /\ jobs' = it.jobs
     /\ IF it.kind = "fetch"
        THEN /\ loops' = loops (+) BagOf(it.loop)
             /\ pipes' = [pipes EXCEPT ![k].pc = "poll"]
             /\ UNCHANGED isStarting
        ELSE /\ pipes' = FinishPipe(pipes, k, it.kind)
             /\ isStarting' = StillStarting(pipes')
             /\ UNCHANGED loops
     /\ last' = ProcessEvent(k, "ok " \o it.kind,
                             IF it.kind = "fetch"
                             THEN {Req("status", k, jobId, "pipeline")} ELSE {},
                             procData)

\* POST /jobs/{id}/process settled.
ProcessOk(k, procData) ==
  LET jobId == pipes[k].jobId
      procStatus == IF "status" \in DOMAIN procData THEN procData.status ELSE "queued"
      label == IF procStatus = "queued" THEN "Queued..." ELSE procStatus
      enqueued == setJob(jobs, k, [status |-> label,
                                   message |-> "Status: " \o procStatus,
                                   jobId |-> jobId])
      it == StartLoop(pollCancel, enqueued, k, jobId, "pipeline")
  IN IF pipes[k].poll
     THEN /\ jobs' = it.jobs
          /\ IF it.kind = "fetch"
             THEN /\ loops' = loops (+) BagOf(it.loop)
                  /\ pipes' = [pipes EXCEPT ![k].pc = "poll"]
                  /\ UNCHANGED isStarting
             ELSE /\ pipes' = FinishPipe(pipes, k, it.kind)
                  /\ isStarting' = StillStarting(pipes')
                  /\ UNCHANGED loops
          /\ last' = ProcessEvent(k, "ok " \o it.kind,
                                  IF it.kind = "fetch"
                                  THEN {Req("status", k, jobId, "pipeline")} ELSE {},
                                  procData)
     ELSE /\ jobs' = setJob(enqueued, k,
                            [status |-> label,
                             message |-> "Enqueued. Polling disabled (you can refresh later).",
                             jobId |-> jobId])
          /\ pipes' = FinishPipe(pipes, k, "unpolled")
          /\ isStarting' = StillStarting(pipes')
          /\ last' = ProcessEvent(k, "ok unpolled", {}, procData)
          /\ UNCHANGED loops

ProcessStep(k) ==
  LET jobId == pipes[k].jobId
  IN /\ pipes[k].pc = "process"
     /\ \/ \E e \in Exceptions : PipelineThrew(k, e)
        \/ \E err \in ErrorDetails :
             PipelineRejected(k, [status |-> "Error",
                                  message |-> "Enqueue failed: " \o err,
                                  jobId |-> jobId])
        \/ /\ \E procData \in ProcessBodies : ProcessOk(k, procData)
           /\ UNCHANGED <<videos, assets, pollingEnabled, pollCancel, nextJob>>

PipelineStep == \E k \in DOMAIN pipes : CreateStep(k) \/ UploadStep(k) \/ ProcessStep(k)

\* The steps of the pipeline of file k.
PipelineStepOf(k) ==
  /\ k \in DOMAIN pipes
  /\ CreateStep(k) \/ UploadStep(k) \/ ProcessStep(k)

\* --------------------------------------------------------------- orchestrator
RECURSIVE LaunchAll(_, _)
LaunchAll(js, batch) ==
  IF batch = <<>> THEN js
  ELSE LaunchAll(setJob(js, fileKey(Head(batch)),
                        [status |-> "Creating job...", message |-> "", jobId |-> null]),
                 Tail(batch))

\* Variant: the cancellation flag is cleared before the validation.
startMode1ParallelClearsFirst ==
  /\ ~isStarting
  /\ pollCancel' = FALSE
  /\ IF Len(videos) = 0
     THEN /\ last' = Event("startAll", "", "no files", {})
          /\ UNCHANGED <<jobs, isStarting, pipes>>
     ELSE IF selectedAssets = {}
     THEN /\ last' = Event("startAll", "", "alert", {})
          /\ UNCHANGED <<jobs, isStarting, pipes>>
     ELSE /\ isStarting' = TRUE
          /\ jobs' = LaunchAll(jobs, videos)
          /\ pipes' = [k \in Keys(videos) |-> NewPipe(pollingEnabled)]
          /\ last' = Event("startAll", "", "launched",
                           { Req("create", k, null, "pipeline") : k \in Keys(videos) })
  /\ UNCHANGED <<videos, assets, pollingEnabled, loops, nextJob>>

\* The Start button is disabled while isStarting. Every pipeline runs to its
\* first await (the POST /jobs) inside this call.
startMode1Parallel ==
  /\ ~isStarting
  /\ IF Len(videos) = 0
     THEN /\ last' = Event("startAll", "", "no files", {})
          /\ UNCHANGED <<jobs, isStarting, pollCancel, pipes>>
     ELSE IF selectedAssets = {}
     THEN /\ last' = Event("startAll", "", "alert", {})
          /\ UNCHANGED <<jobs, isStarting, pollCancel, pipes>>
     ELSE /\ isStarting' = TRUE
          /\ pollCancel' = FALSE
          /\ jobs' = LaunchAll(jobs, videos)
          /\ pipes' = [k \in Keys(videos) |-> NewPipe(pollingEnabled)]
          /\ last' = Event("startAll", "", "launched",
                           { Req("create", k, null, "pipeline") : k \in Keys(videos) })
  /\ UNCHANGED <<videos, assets, pollingEnabled, loops, nextJob>>

\* The Stop and Resume buttons are disabled while polling is disabled.
stopPolling ==
  /\ pollingEnabled
  /\ pollCancel' = TRUE
  /\ last' = NoEvent
  /\ UNCHANGED <<videos, assets, jobs, isStarting, pollingEnabled, pipes, loops, nextJob>>

\* Variant: resumePolling does not skip a record without a jobId.
ResumableWithoutId(i) ==
  LET k == fileKey(videos[i])
  IN /\ k \in DOMAIN jobs
     /\ ~isTerminal(jobs[k].status)

\* The files resumePolling starts a loop for.
Resumable(i) ==
  LET k == fileKey(videos[i])
  IN /\ k \in DOMAIN jobs
     /\ jobs[k].jobId # null
     /\ ~isTerminal(jobs[k].status)

RECURSIVE ResumeAll(_, _)
ResumeAll(i, acc) ==
  IF i > Len(videos) THEN acc
  ELSE IF ~Resumable(i) THEN ResumeAll(i + 1, acc)
  ELSE LET k == fileKey(videos[i])
           it == StartLoop(FALSE, acc.jobs, k, jobs[k].jobId, "resume")
       IN ResumeAll(i + 1,
                    [jobs |-> it.jobs,
                     loops |-> IF it.kind = "fetch" THEN acc.loops (+) BagOf(it.loop)
                               ELSE acc.loops,
                     reqs |-> IF it.kind = "fetch"
                              THEN acc.reqs \cup {Req("status", k, jobs[k].jobId, "resume")}
                              ELSE acc.reqs])

resumePolling ==
  LET res == ResumeAll(1, [jobs |-> jobs, loops |-> loops, reqs |-> {}])
  IN /\ pollingEnabled
     /\ BagCardinality(res.loops) <= MaxLoops
     /\ pollCancel' = FALSE
     /\ jobs' = res.jobs
     /\ loops' = res.loops
     /\ last' = Event("resume", "", "", res.reqs)
     /\ UNCHANGED <<videos, assets, isStarting, pollingEnabled, pipes, nextJob>>

Next ==
  \/ Register
  \/ Remove
  \/ SetPollingEnabled
  \/ startMode1Parallel
  \/ PipelineStep
  \/ PollStep
  \/ Tick
  \/ stopPolling
  \/ resumePolling

Spec == Init /\ [][Next]_vars

\* Two registered videos started together and left alone: no cancellation,
\* no change of the registry.
InitBatch ==
  /\ videos = <<VideoA, VideoB>>
  /\ assets = [a \in Range(ASSET_OPTIONS) |-> TRUE]
  /\ jobs = [k \in Keys(<<VideoA, VideoB>>) |-> InitialRecord]
  /\ isStarting = FALSE
  /\ pollingEnabled = TRUE
  /\ pollCancel = FALSE
  /\ pipes = [k \in {} |-> NewPipe(TRUE)]
  /\ loops = EmptyBag
  /\ nextJob = 1
  /\ last = NoEvent

NextBatch ==
  \/ startMode1Parallel
  \/ PipelineStep
  \/ PollStep
  \/ Tick

SpecBatch == InitBatch /\ [][NextBatch]_vars

\* Two registered videos started together, with the polling controls in
\* use: the polling checkbox before a batch and Stop Polling during it.
NextPause ==
  \/ SetPollingEnabled
  \/ startMode1Parallel
  \/ PipelineStep
  \/ PollStep
  \/ Tick
  \/ stopPolling

SpecPause == InitBatch /\ [][NextPause]_vars

\* The file registry alone: calls of onPickVideos with any list of files.
SpecRegistry == Init /\ [][RegisterAny]_vars

\* The asset selection alone: toggleAsset called with any category.
NextToggle ==
  \/ Toggle
  \/ ToggleOther

SpecToggle == Init /\ [][NextToggle]_vars

\* Two registered videos started with polling enabled and never stopped:
\* every request gets its response, every timer fires and the clock moves
\* on while a loop waits for it.
NextLive ==
  \/ startMode1Parallel
  \/ PipelineStep
  \/ PollStep
  \/ Tick
  \/ LongWait

Responsive ==
  /\ \A k \in Keys(<<VideoA, VideoB>>) :
       WF_vars(PipelineStepOf(k)) /\ WF_vars(PollStepOf(k))
  /\ WF_vars(LongWait)

SpecLive == InitBatch /\ [][NextLive]_vars /\ Responsive

\* The asset checkboxes in play: files are registered, categories toggled,
\* batches started and their polling stopped.
NextAssets ==
  \/ Register
  \/ Toggle
  \/ startMode1Parallel
  \/ PipelineStep
  \/ PollStep
  \/ stopPolling

SpecAssets == Init /\ [][NextAssets]_vars

\* ------------------------------------------------------------------ claims
\* C1: terminal statuses are absorbing: once the record of a registered file
\* is Done, Error or Timed out, no step of any operation changes its status.
C1_TerminalAbsorbing ==
  [][\A k \in DOMAIN jobs \cap Keys(videos) :
       (jobs[k].status \in Terminal /\ k \in DOMAIN jobs' /\ k \in Keys(videos'))
         => jobs'[k].status = jobs[k].status]_vars

\* C2: once the record of a job is Done, Error or Timed out, no polling loop
\* sends a GET status request for that job's remote identifier.
C2_NoPollAfterTerminal ==
  [][\A r \in last'.reqs :
       (r.kind = "status" /\ r.k \in DOMAIN jobs /\ jobs[r.k].jobId = r.jobId)
         => jobs[r.k].status \notin Terminal]_vars

\* C3: in every reachable state the keys that hold a JobRecord are exactly
\* the identity keys of the registered files.
C3_OneRecordPerFile == DOMAIN jobs = Keys(videos)

\* C4: a pipeline whose job-creation request is rejected (non-success
\* response) leaves the record in Error with remoteJobId null and has
\* returned: it sends no upload, enqueue or status request afterwards.
C4_CreateRejected ==
  /\ [](\A k \in DOMAIN pipes :
          (last.op = "create" /\ last.outcome = "rejected" /\ last.k = k)
            => /\ k \in DOMAIN jobs
               /\ jobs[k].status = "Error"
               /\ jobs[k].jobId = null
               /\ pipes[k].pc = "done"
               /\ last.reqs = {})
  /\ [][\A k \in DOMAIN pipes :
          (pipes[k].how = "create rejected" /\ k \in DOMAIN pipes'
             /\ pipes'[k].how = "create rejected")
            => \A r \in last'.reqs : ~(r.k = k /\ r.by = "pipeline")]_vars

\* C5: a pipeline whose upload or enqueue request is rejected ends with the
\* record in Error, the record's remoteJobId being the identifier its own
\* creation request returned, and it has returned: no later stage request.
StageRejected(k) ==
  /\ last.op \in {"upload", "process"}
  /\ last.outcome = "rejected"
  /\ last.k = k

C5_LaterStageRejected ==
  /\ [](\A k \in DOMAIN pipes :
          StageRejected(k)
            => /\ k \in DOMAIN jobs
               /\ jobs[k].status = "Error"
               /\ pipes[k].jobId # null
               /\ jobs[k].jobId = pipes[k].jobId
               /\ pipes[k].pc = "done"
               /\ last.reqs = {}
               /\ \A l \in BagToSet(loops) : ~(l.k = k /\ l.owner = "pipeline"))
  /\ [][\A k \in DOMAIN pipes :
          (pipes[k].how \in {"upload rejected", "process rejected"}
             /\ k \in DOMAIN pipes' /\ pipes'[k].how = pipes[k].how)
            => \A r \in last'.reqs : ~(r.k = k /\ r.by = "pipeline")]_vars

C5_Witness ==
  \E k \in DOMAIN pipes : StageRejected(k) /\ last.op = "process"

\* C6: two files started together, one whose creation request is rejected
\* and one whose requests all succeed and whose remote status becomes done:
\* in every interleaving the first ends in Error and the second in Done, and
\* a failing step of one pipeline changes nothing of another file.
OtherLoops(ls, k) == { l \in BagToSet(ls) : l.k # k }

C6_FailureIsolation ==
  /\ [](\A x, y \in DOMAIN pipes :
          (x # y /\ pipes[x].how = "create rejected" /\ pipes[y].how = "done")
            => /\ jobs[x].status = "Error"
               /\ jobs[y].status = "Done"
               /\ ~isStarting)
  /\ [][\A x \in DOMAIN pipes :
          (last'.k = x /\ last'.op \in {"create", "upload", "process"}
             /\ last'.outcome \in {"rejected", "threw"})
            => \A y \in DOMAIN pipes \ {x} :
                 /\ y \in DOMAIN jobs' /\ jobs'[y] = jobs[y]
                 /\ pipes'[y] = pipes[y]
                 /\ OtherLoops(loops', x) = OtherLoops(loops, x)]_vars

C6_Witness ==
  \E x, y \in DOMAIN pipes :
    x # y /\ pipes[x].how = "create rejected" /\ pipes[y].how = "done"

\* C7: with the cancellation flag set, a polling loop returns at its next
\* iteration boundary without sending a request and without touching the
\* record; while the flag stays set no status request is sent at all.
C7_StopHalts ==
  /\ [][(last'.op = "wake" /\ pollCancel)
          => /\ last'.outcome = "cancel"
             /\ last'.reqs = {}
             /\ jobs' = jobs
             /\ BagCardinality(loops') = BagCardinality(loops) - 1]_vars
  /\ [][(pollCancel /\ pollCancel')
          => \A r \in last'.reqs : r.kind # "status"]_vars

C7_Witness ==
  /\ last.op = "wake"
  /\ last.outcome = "cancel"
  /\ pollCancel
  /\ last.k \in DOMAIN jobs
  /\ jobs[last.k].status \notin Terminal

\* C8 as claimed: resumePolling clears the flag and starts a loop for exactly
\* the registered files whose record has a remoteJobId and a status other
\* than Done, Error and Timed out, sending status requests only.
ResumeStarted(js, reqs, before, after, eligible) ==
  /\ { r.k : r \in reqs } = eligible
  /\ \A r \in reqs : r.kind = "status" /\ r.by = "resume" /\ r.jobId = js[r.k].jobId
  /\ BagCardinality(after) = BagCardinality(before) + Cardinality(eligible)

C8_ResumeExactlyNonTerminal ==
  [][last'.op = "resume"
       => /\ ~pollCancel'
          /\ ResumeStarted(jobs, last'.reqs, loops, loops',
               { k \in Keys(videos) : /\ k \in DOMAIN jobs
                                      /\ jobs[k].jobId # null
                                      /\ jobs[k].status \notin Terminal })]_vars

\* C8 amended: ... whose record has a remoteJobId and a status label that
\* does not contain "done", "error" or "timed out", whatever the case of
\* its letters.
LooksTerminal(label) ==
  \E word \in {"done", "error", "timed out"} : includes(toLowerCase(label), word)

C8_ResumeBySubstring ==
  [][last'.op = "resume"
       => /\ ~pollCancel'
          /\ jobs' = jobs
          /\ ResumeStarted(jobs, last'.reqs, loops, loops',
               { k \in Keys(videos) : /\ k \in DOMAIN jobs
                                      /\ jobs[k].jobId # null
                                      /\ ~LooksTerminal(jobs[k].status) })]_vars

C8_Witness ==
  /\ last.op = "resume"
  /\ last.reqs # {}
  /\ ~pollCancel

\* C9: a failed status query never ends the loop and never sets Error or
\* Done: the loop sets "Polling...", sleeps and, with the flag clear, queries
\* again, until the time since it began exceeds the deadline; then it sets
\* Timed out and returns.
C9_FailedQueries ==
  /\ [](last.op = "fetchFailed"
          => /\ last.k \in DOMAIN jobs
             /\ jobs[last.k].status = "Polling..."
             /\ \E l \in BagToSet(loops) : l.k = last.k /\ l.pc = "sleep")
  /\ [][(last'.op \in {"fetchFailed", "wake"} /\ last'.failedOnly)
          => \A k \in DOMAIN jobs' :
               jobs'[k].status \in {"Done", "Error"}
                 => (k \in DOMAIN jobs /\ jobs[k] = jobs'[k])]_vars
  /\ [][(last'.op = "wake" /\ ~pollCancel)
          => \E l \in BagToSet(loops) :
               /\ l.k = last'.k /\ l.pc = "sleep"
               /\ CopiesIn(l, loops') = CopiesIn(l, loops) - 1
               /\ IF l.elapsedMs \div 1000 > maxSeconds
                  THEN /\ last'.outcome = "timeout"
                       /\ jobs'[l.k].status = "Timed out"
                       /\ last'.reqs = {}
                       /\ BagCardinality(loops') = BagCardinality(loops) - 1
                  ELSE /\ last'.outcome = "fetch"
                       /\ last'.reqs = {Req("status", l.k, l.jobId, l.owner)}
                       /\ jobs' = jobs
                       /\ BagCardinality(loops') = BagCardinality(loops)]_vars

C9_Witness ==
  /\ last.op = "wake"
  /\ last.outcome = "timeout"
  /\ last.failedOnly
  /\ jobs[last.k].status = "Timed out"

\* C10: a status response other than done and error keeps the loop going
\* with a non-terminal record; the done response sets Done with the length
\* of its results (0 when it has none) as the result count of the message,
\* and the loop returns without another request.
ResultCount(body) == IF "results" \in DOMAIN body THEN Len(body.results) ELSE 0

C10_PollToDone ==
  /\ [](last.op = "poll" /\ last.outcome = "done"
          => LET text == "Status: done | Results: " \o ToString(ResultCount(last.body))
             IN /\ jobs[last.k].status = "Done"
                /\ \/ jobs[last.k].message = text
                   \/ startsWith(jobs[last.k].message, text \o " | ")
                /\ last.reqs = {})
  /\ [][last'.op = "poll"
          => IF last'.outcome \in {"done", "error"}
             THEN BagCardinality(loops') = BagCardinality(loops) - 1
             ELSE /\ BagCardinality(loops') = BagCardinality(loops)
                  /\ jobs'[last'.k].status \notin Terminal
                  /\ \E l \in BagToSet(loops') : l.k = last'.k /\ l.pc = "sleep"]_vars

C10_Witness ==
  /\ last.op = "poll"
  /\ last.outcome = "done"
  /\ last.elapsedSec > 0
  /\ ResultCount(last.body) = MaxResults
  /\ jobs[last.k].status = "Done"

\* C11: startMode1Parallel called with no registered file or with no asset
\* category selected sends no request and changes neither a JobRecord nor
\* the cancellation flag (nor the in-progress indicator).
C11_ValidationFailure ==
  /\ [][(Len(videos) = 0 \/ selectedAssets = {}) /\ last'.op = "startAll"
          => /\ last'.outcome \in {"no files", "alert"}
             /\ last'.reqs = {}
             /\ jobs' = jobs
             /\ pollCancel' = pollCancel
             /\ isStarting' = isStarting
             /\ pipes' = pipes /\ loops' = loops]_vars
  /\ [][last'.op = "startAll" /\ last'.outcome \in {"no files", "alert"}
          => Len(videos) = 0 \/ selectedAssets = {}]_vars

C11_Witness ==
  /\ last.op = "startAll"
  /\ last.outcome = "alert"
  /\ selectedAssets = {}
  /\ pollCancel
  /\ \E k \in DOMAIN jobs : jobs[k].jobId # null

\* C12: requests go out in stage order: an upload request only in the step
\* in which the creation request of that file succeeded, an enqueue request
\* only in the step in which its upload succeeded, and a status request for
\* a job only when the pipeline that created the job has had its enqueue
\* request succeed.
Enqueued(p) ==
  \/ p.pc = "poll"
  \/ p.pc = "done" /\ p.how \in {"done", "error", "cancel", "timeout", "unpolled"}

C12_StageOrder ==
  [][\A r \in last'.reqs :
       /\ r.kind = "upload"
            => /\ last'.op = "create" /\ last'.outcome = "ok" /\ last'.k = r.k
               /\ r.jobId = pipes'[r.k].jobId
       /\ r.kind = "process"
            => /\ last'.op = "upload" /\ last'.outcome = "ok" /\ last'.k = r.k
               /\ r.jobId = pipes'[r.k].jobId
       /\ r.kind = "status"
            => \A k \in DOMAIN pipes' :
                 pipes'[k].jobId = r.jobId => Enqueued(pipes'[k])]_vars

\* C13 as claimed: isStarting is true as long as a launched pipeline has not
\* returned, and in the step in which it becomes false every launched file's
\* record is Done, Error or Timed out, or its pipeline skipped polling
\* because polling is disabled.
PollingSkipped(p, rec) ==
  /\ p.how = "unpolled"
  /\ ~p.poll
  /\ rec.message = "Enqueued. Polling disabled (you can refresh later)."

PollingPaused(p, rec) ==
  /\ p.how = "cancel"
  /\ p.poll
  /\ rec.jobId = p.jobId
  /\ rec.jobId # null

IsVideo(f) == startsWith(f.type, "video/")

FirstAt(arr, k) == CHOOSE i \in DOMAIN arr :
  fileKey(arr[i]) = k /\ \A j \in 1..(i - 1) : fileKey(arr[j]) # k

LastOf(arr, k) == arr[CHOOSE i \in DOMAIN arr :
  fileKey(arr[i]) = k /\ \A j \in (i + 1)..Len(arr) : fileKey(arr[j]) # k]

C14_RegistryMerge ==
  /\ [](\A i, j \in DOMAIN videos :
          /\ IsVideo(videos[i])
          /\ i # j => fileKey(videos[i]) # fileKey(videos[j]))
  /\ [][last'.op = "register"
          => LET arr == SelectSeq(last'.files, IsVideo)
             IN /\ Keys(videos') = Keys(videos) \cup Keys(arr)
                /\ Len(videos') >= Len(videos)
                /\ \A i \in DOMAIN videos : fileKey(videos'[i]) = fileKey(videos[i])
                /\ \A i, j \in (Len(videos) + 1)..Len(videos') :
                     i < j => FirstAt(arr, fileKey(videos'[i]))
                                < FirstAt(arr, fileKey(videos'[j]))
                /\ \A i \in DOMAIN videos' :
                     videos'[i] = IF fileKey(videos'[i]) \in Keys(arr)
                                  THEN LastOf(arr, fileKey(videos'[i]))
                                  ELSE videos[i]]_vars

C14_Witness ==
  /\ last.op = "register"
  /\ Len(last.files) = 2
  /\ IsVideo(last.files[1]) /\ IsVideo(last.files[2])
  /\ last.files[1] # last.files[2]
  /\ fileKey(last.files[1]) = fileKey(last.files[2])
  /\ Len(videos) = 3
  /\ videos[1] = last.files[2]
  /\ videos[3].name = "a.mp4"

\* C15: a call of onPickVideos leaves every existing JobRecord as it is, in
\* particular the record of a picked file that is already registered,
\* whatever its pipeline or its polling loops are doing.
C15_ReRegisterKeepsRecord ==
  [][last'.op = "register"
       => \A k \in DOMAIN jobs : k \in DOMAIN jobs' /\ jobs'[k] = jobs[k]]_vars

C15_Witness ==
  /\ last.op = "register"
  /\ \E k \in Keys(last.files) \cap Keys(videos) \cap DOMAIN pipes :
       /\ pipes[k].pc = "poll"
       /\ jobs[k].status = "Processing..."
       /\ \E l \in BagToSet(loops) : l.k = k /\ l.pc = "sleep"

\* C16: removing a file deletes its JobRecord, a removal that leaves the
\* registry as it is leaves the records as they are, and a file that
\* becomes registered starts with the record Queued, no job id, no message.
C16_RemoveThenFresh ==
  [][/\ \A k \in Keys(videos) \ Keys(videos') : k \notin DOMAIN jobs'
     /\ (last'.op = "" /\ videos' = videos /\ pipes' = pipes /\ loops' = loops
           /\ pollCancel' = pollCancel /\ pollingEnabled' = pollingEnabled)
          => jobs' = jobs
     /\ \A k \in Keys(videos') \ Keys(videos) :
          k \in DOMAIN jobs' /\ jobs'[k] = InitialRecord]_vars

\* C17: with polling disabled, a pipeline whose enqueue request succeeds
\* sends no status request and returns; the record then has the status
\* taken from the enqueue response ("Queued..." for queued or for a body
\* without status, the response's status otherwise), the job id of the
\* pipeline's creation request and the message that polling is disabled.
EnqueueSucceeded == last.op = "process" /\ startsWith(last.outcome, "ok")

AdoptedStatus(body) ==
  IF "status" \notin DOMAIN body \/ body.status = "queued" THEN "Queued..."
  ELSE body.status

C17_PollingDisabled ==
  /\ [](EnqueueSucceeded => (last.outcome = "ok unpolled" <=> ~pollingEnabled))
  /\ []((EnqueueSucceeded /\ ~pollingEnabled)
          => /\ last.reqs = {}
             /\ pipes[last.k].pc = "done"
             /\ \A l \in BagToSet(loops) : ~(l.k = last.k /\ l.owner = "pipeline")
             /\ jobs[last.k].status = AdoptedStatus(last.body)
             /\ jobs[last.k].jobId = pipes[last.k].jobId
             /\ jobs[last.k].jobId # null
             /\ jobs[last.k].message
                  = "Enqueued. Polling disabled (you can refresh later).")
  /\ [][\A k \in DOMAIN pipes :
          (pipes[k].how = "unpolled" /\ k \in DOMAIN pipes'
             /\ pipes'[k].how = "unpolled")
            => \A r \in last'.reqs : ~(r.k = k /\ r.by = "pipeline")]_vars

C17_Witness ==
  /\ EnqueueSucceeded
  /\ ~pollingEnabled
  /\ last.body = [status |-> "processing"]
  /\ jobs[last.k].status = "processing"
  /\ ~isStarting

\* C18: the asset selection always has exactly the five keys of
\* ASSET_OPTIONS, all requested at the start; a toggle changes at most one
\* key's flag, and it is never a key outside the five: a toggle of another
\* category leaves the selection as it is.
C18_FiveCategories ==
  /\ DOMAIN assets = Range(ASSET_OPTIONS)
  /\ \A a \in DOMAIN assets : assets[a] \in BOOLEAN
  /\ Cardinality(DOMAIN assets) = 5

\* C19: an exception thrown while a pipeline awaits its creation, upload or
\* enqueue request or reads the response is caught in that pipeline: the
\* record becomes Error with the exception's description, its job id stays
\* what the record had, the pipeline has returned and sends nothing more,
\* and the records, pipelines and loops of the other files are untouched.
Threw(e) == e.op \in {"create", "upload", "process"} /\ e.outcome = "threw"

C19_ExceptionCaught ==
  /\ [][Threw(last')
          => LET k == last'.k
             IN /\ k \in DOMAIN jobs'
                /\ jobs'[k].status = "Error"
                /\ \E e \in Exceptions : jobs'[k].message = "Unexpected error: " \o e
                /\ k \in DOMAIN jobs => jobs'[k].jobId = jobs[k].jobId
                /\ pipes[k].pc = last'.op
                /\ pipes'[k].pc = "done"
                /\ last'.reqs = {}
                /\ \A y \in DOMAIN pipes \ {k} :
                     /\ pipes'[y] = pipes[y]
                     /\ y \in DOMAIN jobs => (y \in DOMAIN jobs' /\ jobs'[y] = jobs[y])
                /\ loops' = loops]_vars
  /\ [][\A k \in DOMAIN pipes :
          (pipes[k].how \in {"create threw", "upload threw", "process threw"}
             /\ k \in DOMAIN pipes' /\ pipes'[k].how = pipes[k].how)
            => \A r \in last'.reqs : ~(r.k = k /\ r.by = "pipeline")]_vars

C19_Witness ==
  /\ Threw(last)
  /\ last.op = "process"
  /\ jobs[last.k].status = "Error"
  /\ jobs[last.k].jobId = pipes[last.k].jobId
  /\ jobs[last.k].jobId # null
  /\ \E y \in DOMAIN pipes : y # last.k /\ pipes[y].pc = "create" /\ isStarting

\* C20: with polling enabled and the cancellation flag never set, every
\* launched pipeline eventually has returned with its record Done, Error or
\* Timed out, and the batch eventually completes (isStarting is false
\* again): no loop polls forever.
C20_EventuallySettled ==
  /\ isStarting ~> ~isStarting
  /\ \A k \in Keys(<<VideoA, VideoB>>) :
       (k \in DOMAIN pipes /\ pipes[k].pc # "done")
         ~> (k \in DOMAIN pipes /\ pipes[k].pc = "done" /\ jobs[k].status \in Terminal)

C20_Witness ==
  /\ ~isStarting
  /\ pollingEnabled /\ ~pollCancel
  /\ loops = EmptyBag
  /\ \E x, y \in DOMAIN pipes :
       /\ pipes[x].how = "timeout"
       /\ jobs[x].status = "Timed out"
       /\ pipes[y].how = "create threw"
       /\ jobs[y].status = "Error"

\* C21: at any time at most one call of pollUntilTerminal is running for a
\* file key, whatever the sequence of start, stop and resume.
LoopsOf(k) == { l \in BagToSet(loops) : l.k = k }

C21_OneLoopPerFile ==
  \A l \in BagToSet(loops) :
    /\ CopiesIn(l, loops) = 1
    /\ LoopsOf(l.k) = {l}

\* C22: while a file stays registered, a job id its record has is neither
\* reset to null nor replaced by another id, and no creation request is
\* sent for a file whose record already has a job id.
C22_JobIdSetOnce ==
  [][\A k \in Keys(videos) \cap Keys(videos') :
       (k \in DOMAIN jobs /\ jobs[k].jobId # null)
         => /\ k \in DOMAIN jobs'
            /\ jobs'[k].jobId = jobs[k].jobId
            /\ \A r \in last'.reqs : ~(r.kind = "create" /\ r.k = k)]_vars
====
